---- MODULE Spec2Model ----
(***************************************************************************)
(* LoadChecker (instance version, src/unnamed/part_000 lines 33-335).      *)
(*                                                                         *)
(* One LoadChecker instance inside a browser host.  Every action is one    *)
(* host task run to completion: a call of callWhenReadyToGo, one firing of *)
(* the setInterval change observer, one firing of the setTimeout that      *)
(* re-runs _executeCallbackAfterPageIsLoaded, one delivery of mutation     *)
(* records to the MutationObserver callback, or one DOM edit by the page.  *)
(***************************************************************************)
EXTENDS Integers, Sequences, FiniteSets, TLC

\* ------------------------------------------------------------------ bounds
MaxReady == 2      \* largest _READY_AFTER_N_STEADY_STATE_INTERVALS tried
MaxMax == 3        \* largest _EXIT_REGARDLESS_AFTER_MAX_INTERVALS tried
MaxNodes == 2      \* largest element count of the document
MaxDrift == 2      \* observer ticks the host may run between two load checks
MaxMutations == 2  \* counted mutation batches the page may pile up between ticks
MaxWatches == 2    \* watches started on the singleton LoadChecker object
MaxTreeNodes == 3  \* nodes below the document in the trees that are counted

Instances == {1, 2}    \* the instances a page creates with new LoadChecker()
Callbacks == {1, 2}    \* callback of the first call, callback of every later call
Support == {"ok", "missing", "observeThrows"}  \* host's MutationObserver capability
Sched == {"ok", "setIntervalThrows", "setTimeoutThrows"}  \* host's timer functions

ELEMENT_NODE == 1       \* document.ELEMENT_NODE
NodeTypes == {1, 3}     \* nodeType of an element, of any other node
TreeNodes == 1..MaxTreeNodes

VARIABLES
    \* the node tree handed to _countElements: tree.parent[i] is the node whose
    \* childNodes holds node i (0 = the list that is counted, nodes are
    \* numbered in document order), tree.nodeType[i] its nodeType; the other
    \* specifications follow only the element count of the document (nodeCount)
    tree,
    counted,                 \* results of the calls of _countElements on the tree
    \* configuration fields of the instance (lines 40-42)
    READY_AFTER_N_STEADY_STATE_INTERVALS,
    EXIT_REGARDLESS_AFTER_MAX_INTERVALS,
    \* state fields of the instance (lines 47-54)
    domMutationOrNodeCountIntervalCheck,  \* interval handle, 0 = null
    user_callback,                        \* stored callback, 0 = null
    lastKnownNodeCountForMutationEvent,
    lastKnownNodeCountForNodeCountCheck,
    mutationsCount,
    intervalCount,
    steadyStateIntervals,
    usedInstance,
    \* host: document, globals, observers and timers
    nodeCount,               \* element count of the document
    strategy,                \* handler given to setInterval, "none" before setup
    observing,               \* a MutationObserver of the instance is subscribed
    recordsPending,          \* mutation records queued for the observer
    intervalTimers,          \* active setInterval timers: [id, handler]
    pendingTimeouts,         \* pending setTimeout re-runs of the load check
    ticksSinceCheck,         \* observer ticks since the last load check
    \* what has been observed of the run
    phase,                   \* CREATED, CONFIG_ERROR, SETUP_ERROR, WATCHING, LOADED,
                             \* TIMED_OUT
    callLog,                 \* callback and result of the first and of the latest later call
    cbCalls,                 \* invocations of each user callback
    cbRaised,                \* an invoked callback raised
    timeoutsRaised,          \* timeout errors thrown by _isPageLoaded
    uncaught,                \* errors that escaped a timer callback to the host
    notSteadyChecks,         \* load checks that found the threshold not reached
    changedTicks,            \* observer ticks so far if each detected a change, else -1
    hist,                    \* shape of the DOM activity per interval of the watch
    quietTicks,              \* latest observer ticks in a row that reported no change
    liveUpdates,             \* attribute or text updates in every interval so far, see NextLive
    \* a page with several instances (the README page creates loadChecker and
    \* loadChecker2); the variables above then stay as created
    instances,               \* the state fields of each instance
    pageTimers,              \* active setInterval timers: [id, handler, owner]
    pageTimeouts,            \* instances whose setTimeout re-run is pending
    pageObservers,           \* instances whose MutationObserver is subscribed
    pageQueued,              \* instances whose observer has records queued
    watch,                   \* per instance: phase, ticks since its last check,
                             \* invocations of the callback it was called with
    crossTalk                \* a handler changed an instance other than the one
                             \* that armed it, see ChangesOther

treeVars == <<tree, counted>>
cfgVars == <<READY_AFTER_N_STEADY_STATE_INTERVALS, EXIT_REGARDLESS_AFTER_MAX_INTERVALS>>
stateVars == <<domMutationOrNodeCountIntervalCheck, user_callback,
               lastKnownNodeCountForMutationEvent, lastKnownNodeCountForNodeCountCheck,
               mutationsCount, intervalCount, steadyStateIntervals, usedInstance>>
hostVars == <<nodeCount, strategy, observing,
              recordsPending, intervalTimers, pendingTimeouts, ticksSinceCheck>>
obsVars == <<phase, callLog, cbCalls, cbRaised, timeoutsRaised, uncaught,
             notSteadyChecks, changedTicks, hist, quietTicks, liveUpdates>>
pageVars == <<instances, pageTimers, pageTimeouts, pageObservers, pageQueued,
              watch, crossTalk>>
vars == <<treeVars, cfgVars, stateVars, hostVars, obsVars, pageVars>>

\* ------------------------------------------------------- pure helpers

\* the trees of MaxTreeNodes nodes
Trees ==
    {[parent |-> p, nodeType |-> k] :
        p \in {f \in [TreeNodes -> 0..MaxTreeNodes] : \A i \in TreeNodes : f[i] < i},
        k \in [TreeNodes -> NodeTypes]}

\* a document whose nodes are all elements directly below it
FlatTree == [parent |-> [i \in TreeNodes |-> 0], nodeType |-> [i \in TreeNodes |-> ELEMENT_NODE]]

RECURSIVE CountLoop_DescendsAll(_, _, _)
\* variant of the loop: the recursion is outside the nodeType test
CountLoop_DescendsAll(t, p, i) ==
    IF i > MaxTreeNodes THEN 0
    ELSE (IF t.parent[i] = p
          THEN (IF t.nodeType[i] = ELEMENT_NODE THEN 1 ELSE 0)
                 + CountLoop_DescendsAll(t, i, i + 1)
          ELSE 0)
         + CountLoop_DescendsAll(t, p, i + 1)

RECURSIVE CountLoop(_, _, _)
\* the for loop of _countElements over the childNodes of p, from node i on:
\* an element counts 1 plus the count of its own childNodes, any other node 0
CountLoop(t, p, i) ==
    IF i > MaxTreeNodes THEN 0
    ELSE (IF t.parent[i] = p
          THEN (IF t.nodeType[i] = ELEMENT_NODE
                THEN 1 + CountLoop(t, i, i + 1)
                ELSE 0)
          ELSE 0)
         + CountLoop(t, p, i + 1)

\* variant: nodes below a non-element node are visited too
CountElements_DescendsAll(t, p) == CountLoop_DescendsAll(t, p, p + 1)

\* _countElements(children), children being the childNodes of p
CountElements(t, p) == CountLoop(t, p, p + 1)

\* variant: the comparison written as a strict one
ValidateConfigurationThrows_Strict(ready, max) == ready > max

\* _validateConfiguration: does it throw the configuration error
ValidateConfigurationThrows(ready, max) == ready >= max

\* variant: no reuse guard
InstanceAlreadyUsed_Never == FALSE

\* guard at the top of callWhenReadyToGo
InstanceAlreadyUsed == usedInstance

\* variant: the used flag is set after the setup, as the callback is
UsedWhenCallFails_SetLate == FALSE

\* _usedInstance after a call that fails in the validation or in the setup:
\* the flag is set (line 330) before both (lines 331-332)
UsedWhenCallFails == TRUE

\* _setupMutationObserverIfPossible: TRUE iff construction and observe succeed
SetupMutationObserverIfPossible(support) == support = "ok"

\* variant: the observer is set up outside the try block
SetupMutationObserverThrows_NoCatch(support) == support # "ok"

\* _setupMutationObserverIfPossible: does an exception leave it; the try
\* block (lines 123-161) encloses the construction and the subscription
SetupMutationObserverThrows(support) == FALSE

\* variant: clearInterval misses the stored handle
CleanupLoadChecker_WrongHandle(handle, timers) == timers

\* _cleanupLoadChecker: clearInterval on the stored handle
CleanupLoadChecker(handle, timers) == {t \in timers : t.id # handle}

\* variant: the budget test is off by one
IsPageLoaded_LateTimeout(steady, ic) ==
    IF steady >= READY_AFTER_N_STEADY_STATE_INTERVALS
    THEN [loaded |-> TRUE, threw |-> FALSE, intervalCount |-> ic]
    ELSE IF ic + 1 > EXIT_REGARDLESS_AFTER_MAX_INTERVALS + 1
         THEN [loaded |-> FALSE, threw |-> TRUE, intervalCount |-> ic + 1]
         ELSE [loaded |-> FALSE, threw |-> FALSE, intervalCount |-> ic + 1]

\* variant: the budget is exhausted one load check early
IsPageLoaded_EarlyTimeout(steady, ic) ==
    IF steady >= READY_AFTER_N_STEADY_STATE_INTERVALS
    THEN [loaded |-> TRUE, threw |-> FALSE, intervalCount |-> ic]
    ELSE IF ic + 1 >= EXIT_REGARDLESS_AFTER_MAX_INTERVALS
         THEN [loaded |-> FALSE, threw |-> TRUE, intervalCount |-> ic + 1]
         ELSE [loaded |-> FALSE, threw |-> FALSE, intervalCount |-> ic + 1]

\* variant: the check that follows the first steady interval already passes
IsPageLoaded_ThresholdOffByOne(steady, ic) ==
    IF steady + 1 >= READY_AFTER_N_STEADY_STATE_INTERVALS
    THEN [loaded |-> TRUE, threw |-> FALSE, intervalCount |-> ic]
    ELSE IF ic + 1 > EXIT_REGARDLESS_AFTER_MAX_INTERVALS
         THEN [loaded |-> FALSE, threw |-> TRUE, intervalCount |-> ic + 1]
         ELSE [loaded |-> FALSE, threw |-> FALSE, intervalCount |-> ic + 1]

\* variant: _intervalCount is incremented before the threshold is tested
IsPageLoaded_CountsEveryCheck(steady, ic) ==
    IF steady >= READY_AFTER_N_STEADY_STATE_INTERVALS
    THEN [loaded |-> TRUE, threw |-> FALSE, intervalCount |-> ic + 1]
    ELSE IF ic + 1 > EXIT_REGARDLESS_AFTER_MAX_INTERVALS
         THEN [loaded |-> FALSE, threw |-> TRUE, intervalCount |-> ic + 1]
         ELSE [loaded |-> FALSE, threw |-> FALSE, intervalCount |-> ic + 1]

\* _isPageLoaded on counters (steady, ic): verdict and the new _intervalCount
IsPageLoaded(steady, ic) ==
    IF steady >= READY_AFTER_N_STEADY_STATE_INTERVALS
    THEN [loaded |-> TRUE, threw |-> FALSE, intervalCount |-> ic]
    ELSE IF ic + 1 > EXIT_REGARDLESS_AFTER_MAX_INTERVALS
         THEN [loaded |-> FALSE, threw |-> TRUE, intervalCount |-> ic + 1]
         ELSE [loaded |-> FALSE, threw |-> FALSE, intervalCount |-> ic + 1]

\* the log statements after the user callback read the free identifier
\* `callback`; they throw a ReferenceError when no such global exists
\* (defined: whether the host has a global of that name when they run)
CallbackLogThrows(defined) == ~defined

\* variant: the next check is armed also after the callback has run
ExecuteCallbackAfterPageIsLoaded_RearmsWhenLoaded(steady, ic, handle, timers, defined) ==
    LET r == IsPageLoaded(steady, ic) IN
    IF r.threw
    THEN [intervalCount |-> r.intervalCount,
          timers |-> CleanupLoadChecker(handle, timers),
          rearm |-> FALSE, invoked |-> FALSE, verdict |-> "TIMED_OUT",
          error |-> "timeout"]
    ELSE IF r.loaded
    THEN [intervalCount |-> r.intervalCount,
          timers |-> CleanupLoadChecker(handle, timers),
          rearm |-> TRUE, invoked |-> TRUE, verdict |-> "LOADED",
          error |-> IF CallbackLogThrows(defined) THEN "reference" ELSE "none"]
    ELSE [intervalCount |-> r.intervalCount,
          timers |-> timers,
          rearm |-> TRUE, invoked |-> FALSE, verdict |-> "WATCHING",
          error |-> "none"]

\* variant: the timeout error neither clears the interval nor stops the checks
ExecuteCallbackAfterPageIsLoaded_WatchesAfterTimeout(steady, ic, handle, timers, defined) ==
    LET r == IsPageLoaded(steady, ic) IN
    IF r.threw
    THEN [intervalCount |-> r.intervalCount,
          timers |-> timers,
          rearm |-> TRUE, invoked |-> FALSE, verdict |-> "TIMED_OUT",
          error |-> "timeout"]
    ELSE IF r.loaded
    THEN [intervalCount |-> r.intervalCount,
          timers |-> CleanupLoadChecker(handle, timers),
          rearm |-> FALSE, invoked |-> TRUE, verdict |-> "LOADED",
          error |-> IF CallbackLogThrows(defined) THEN "reference" ELSE "none"]
    ELSE [intervalCount |-> r.intervalCount,
          timers |-> timers,
          rearm |-> TRUE, invoked |-> FALSE, verdict |-> "WATCHING",
          error |-> "none"]

\* variant: the cleanup follows the log statement in the try block instead
\* of standing in the finally block
ExecuteCallbackAfterPageIsLoaded_CleanupInTry(steady, ic, handle, timers, defined) ==
    LET r == IsPageLoaded(steady, ic) IN
    IF r.threw
    THEN [intervalCount |-> r.intervalCount,
          timers |-> CleanupLoadChecker(handle, timers),
          rearm |-> FALSE, invoked |-> FALSE, verdict |-> "TIMED_OUT",
          error |-> "timeout"]
    ELSE IF r.loaded
    THEN [intervalCount |-> r.intervalCount,
          timers |-> IF CallbackLogThrows(defined) THEN timers
                     ELSE CleanupLoadChecker(handle, timers),
          rearm |-> FALSE, invoked |-> TRUE, verdict |-> "LOADED",
          error |-> IF CallbackLogThrows(defined) THEN "reference" ELSE "none"]
    ELSE [intervalCount |-> r.intervalCount,
          timers |-> timers,
          rearm |-> TRUE, invoked |-> FALSE, verdict |-> "WATCHING",
          error |-> "none"]

\* _executeCallbackAfterPageIsLoaded, as a function of the state it reads
ExecuteCallbackAfterPageIsLoaded(steady, ic, handle, timers, defined) ==
    LET r == IsPageLoaded(steady, ic) IN
    IF r.threw
    THEN [intervalCount |-> r.intervalCount,
          timers |-> CleanupLoadChecker(handle, timers),
          rearm |-> FALSE, invoked |-> FALSE, verdict |-> "TIMED_OUT",
          error |-> "timeout"]
    ELSE IF r.loaded
    THEN [intervalCount |-> r.intervalCount,
          timers |-> CleanupLoadChecker(handle, timers),
          rearm |-> FALSE, invoked |-> TRUE, verdict |-> "LOADED",
          error |-> IF CallbackLogThrows(defined) THEN "reference" ELSE "none"]
    ELSE [intervalCount |-> r.intervalCount,
          timers |-> timers,
          rearm |-> TRUE, invoked |-> FALSE, verdict |-> "WATCHING",
          error |-> "none"]

\* variant: a detected change does not move the baseline
NodeCountChangeObserver_KeepsBaseline(last, steady, current) ==
    IF last # current
    THEN [changed |-> TRUE, steady |-> 0, last |-> last]
    ELSE [changed |-> FALSE, steady |-> steady + 1, last |-> last]

\* _nodeCountChangeObserver on (baseline, steady) with the current count
NodeCountChangeObserver(last, steady, current) ==
    IF last # current
    THEN [changed |-> TRUE, steady |-> 0, last |-> current]
    ELSE [changed |-> FALSE, steady |-> steady + 1, last |-> last]

\* _domMutationsCountObserver on (accumulator, steady)
DomMutationsCountObserver(mc, steady) ==
    IF mc > 0
    THEN [changed |-> TRUE, steady |-> 0, mutationsCount |-> 0]
    ELSE [changed |-> FALSE, steady |-> steady + 1, mutationsCount |-> mc]

\* variant: the recorded count is overwritten before it is compared
MutationCallback_AssignBeforeCompare(last, mc, current) ==
    [last |-> current, mutationsCount |-> mc]

\* variant: the accumulator holds the outcome of the latest batch only
MutationCallback_OverwritesCount(last, mc, current) ==
    [last |-> current, mutationsCount |-> IF last # current THEN 1 ELSE 0]

\* variant: every notification batch counts as a change
MutationCallback_CountsEveryBatch(last, mc, current) ==
    [last |-> current, mutationsCount |-> mc + 1]

\* the MutationObserver callback on (recorded count, accumulator)
MutationCallback(last, mc, current) ==
    [last |-> current, mutationsCount |-> IF last # current THEN mc + 1 ELSE mc]

\* hist: the watch so far consists of hist.k intervals over which the element
\* count changed, then hist.q intervals without any DOM edit (an interval ends
\* at an observer tick); hist.base is the element count at the last tick (at
\* watch start before the first), hist.edited tells whether the page edited
\* the DOM since; hist.ok is FALSE once the run no longer has that shape
NoShape == [ok |-> FALSE, k |-> 0, q |-> 0, base |-> 0, edited |-> FALSE]

\* classification of the interval that ends at an observer tick
IntervalKind(h, current) ==
    IF current # h.base THEN "net"
    ELSE IF h.edited THEN "other" ELSE "quiet"

NextHist(h, current) ==
    LET kind == IntervalKind(h, current) IN
    IF h.ok /\ kind = "net" /\ h.q = 0
    THEN [ok |-> TRUE, k |-> h.k + 1, q |-> 0, base |-> current, edited |-> FALSE]
    ELSE IF h.ok /\ kind = "quiet"
    THEN [ok |-> TRUE, k |-> h.k, q |-> h.q + 1, base |-> current, edited |-> FALSE]
    ELSE NoShape

\* the page edits the DOM
EditedHist(h) ==
    IF h.ok /\ phase = "WATCHING" THEN [h EXCEPT !.edited = TRUE] ELSE h

\* observer ticks of a run that has the shape
ObserverTicks == hist.k + hist.q

\* one more observer tick that did or did not detect a change
NextChangedTicks(n, changed) == IF n >= 0 /\ changed THEN n + 1 ELSE -1

\* one more observer tick that did or did not detect a change
NextQuietTicks(n, changed) == IF changed THEN 0 ELSE n + 1

\* liveUpdates: "idle" while every interval of the watch that has ended saw an
\* attribute or text update and no edit of the watch changed the element
\* count, "seen" when the running interval has had its update too, "off"
\* otherwise
NextLive(l) == IF l = "seen" THEN "idle" ELSE "off"

\* the page updates an attribute or a text
UpdatedLive(l) == IF phase = "WATCHING" /\ l = "idle" THEN "seen" ELSE l

\* the page changes the element count
RecountedLive(l) == IF phase = "WATCHING" THEN "off" ELSE l

\* -------------------------------------------------------------- Init
\* the state fields new LoadChecker() sets (lines 47-54)
NewLoadChecker ==
    [domMutationOrNodeCountIntervalCheck |-> 0,
     user_callback |-> 0,
     lastKnownNodeCountForMutationEvent |-> 0,
     lastKnownNodeCountForNodeCountCheck |-> 0,
     mutationsCount |-> 0,
     intervalCount |-> 0,
     steadyStateIntervals |-> 0,
     usedInstance |-> FALSE]

\* a fresh instance whose thresholds are at most maxReady and maxMax, in a
\* host that has not run anything yet
NewInstance(maxReady, maxMax) ==
    /\ READY_AFTER_N_STEADY_STATE_INTERVALS \in 0..maxReady
    /\ EXIT_REGARDLESS_AFTER_MAX_INTERVALS \in 1..maxMax
    /\ domMutationOrNodeCountIntervalCheck = 0
    /\ user_callback = 0
    /\ lastKnownNodeCountForMutationEvent = 0
    /\ lastKnownNodeCountForNodeCountCheck = 0
    /\ mutationsCount = 0
    /\ intervalCount = 0
    /\ steadyStateIntervals = 0
    /\ usedInstance = FALSE
    /\ nodeCount \in 1..MaxNodes
    /\ strategy = "none"
    /\ observing = FALSE
    /\ recordsPending = FALSE
    /\ intervalTimers = {}
    /\ pendingTimeouts = 0
    /\ ticksSinceCheck = 0
    /\ phase = "CREATED"
    /\ callLog = <<>>
    /\ cbCalls = [c \in Callbacks |-> 0]
    /\ cbRaised = FALSE
    /\ timeoutsRaised = 0
    /\ uncaught = {}
    /\ notSteadyChecks = 0
    /\ changedTicks = 0
    /\ hist = [ok |-> TRUE, k |-> 0, q |-> 0, base |-> 0, edited |-> FALSE]
    /\ quietTicks = 0
    /\ liveUpdates = "idle"
    /\ instances = [i \in Instances |-> NewLoadChecker]
    /\ pageTimers = {}
    /\ pageTimeouts = {}
    /\ pageObservers = {}
    /\ pageQueued = {}
    /\ watch = [i \in Instances |-> [phase |-> "CREATED", ticksSinceCheck |-> 0,
                                      cbCalls |-> 0]]
    /\ crossTalk = FALSE

\* the same, with a document that is followed by its element count only
Created(maxReady, maxMax) ==
    /\ NewInstance(maxReady, maxMax)
    /\ tree = FlatTree
    /\ counted = <<>>

Init == Created(MaxReady, MaxMax)

\* the drift-free clock is checked with thresholds one larger
InitClock == Created(MaxReady + 1, MaxMax + 1)

\* ------------------------------------------------------------ actions

\* the call log keeps the first call and the latest later call
Logged(log, entry) == IF Len(log) < 2 THEN Append(log, entry) ELSE <<log[1], entry>>

\* result a call of the entry point reports to its caller
CallResult(error) == IF error = "none" THEN "returned" ELSE error

\* handler that _setupLoadChecker hands to setInterval
IntervalHandler(support) ==
    IF SetupMutationObserverIfPossible(support) THEN "domMutationsCount" ELSE "nodeCountChange"

\* callWhenReadyToGo(cb).  support: what the host's MutationObserver does;
\* raises: whether cb raises if invoked; defined: whether a global named
\* `callback` exists; sched: whether the host's setInterval or setTimeout
\* throws when the call arms its timers
callWhenReadyToGo(cb, support, raises, defined, sched) ==
    /\ cb = (IF callLog = <<>> THEN 1 ELSE 2)
    /\ UNCHANGED pageVars
    /\ IF InstanceAlreadyUsed
       THEN /\ callLog' = Logged(callLog, [cb |-> cb, result |-> "reuse"])
            /\ UNCHANGED <<treeVars, cfgVars, stateVars, hostVars>>
            /\ UNCHANGED <<phase, cbCalls, cbRaised, timeoutsRaised, uncaught,
                           notSteadyChecks, changedTicks, hist, quietTicks, liveUpdates>>
       ELSE IF ValidateConfigurationThrows(READY_AFTER_N_STEADY_STATE_INTERVALS,
                                           EXIT_REGARDLESS_AFTER_MAX_INTERVALS)
       THEN /\ usedInstance' = UsedWhenCallFails
            /\ callLog' = Logged(callLog, [cb |-> cb, result |-> "config"])
            /\ phase' = "CONFIG_ERROR"
            /\ UNCHANGED <<treeVars, cfgVars, hostVars>>
            /\ UNCHANGED <<domMutationOrNodeCountIntervalCheck, user_callback,
                           lastKnownNodeCountForMutationEvent,
                           lastKnownNodeCountForNodeCountCheck,
                           mutationsCount, intervalCount, steadyStateIntervals>>
            /\ UNCHANGED <<cbCalls, cbRaised, timeoutsRaised, uncaught,
                           notSteadyChecks, changedTicks, hist, quietTicks, liveUpdates>>
       ELSE IF SetupMutationObserverThrows(support) \/ sched = "setIntervalThrows"
       \* the catch of _setupLoadChecker (lines 193-196) rethrows; the counters
       \* are initialized, a subscribed observer stays, nothing else is done
       THEN /\ usedInstance' = UsedWhenCallFails
            /\ steadyStateIntervals' = 0
            /\ mutationsCount' = 0
            /\ intervalCount' = 0
            /\ lastKnownNodeCountForMutationEvent' = 0
            /\ lastKnownNodeCountForNodeCountCheck' = 0
            /\ observing' = (~SetupMutationObserverThrows(support)
                               /\ SetupMutationObserverIfPossible(support))
            /\ phase' = "SETUP_ERROR"
            /\ callLog' = Logged(callLog, [cb |-> cb, result |-> "setup"])
            /\ UNCHANGED <<treeVars, cfgVars, domMutationOrNodeCountIntervalCheck, user_callback>>
            /\ UNCHANGED <<nodeCount, strategy, recordsPending, intervalTimers,
                           pendingTimeouts, ticksSinceCheck>>
            /\ UNCHANGED <<cbCalls, cbRaised, timeoutsRaised, uncaught,
                           notSteadyChecks, changedTicks, hist, quietTicks, liveUpdates>>
       ELSE LET handle == 1
                armed == intervalTimers \cup
                           {[id |-> handle, handler |-> IntervalHandler(support)]}
                \* _initializeCounters has zeroed the counters
                e0 == ExecuteCallbackAfterPageIsLoaded(0, 0, handle, armed, defined)
                \* a setTimeout that throws is caught at line 287: the interval
                \* is cleared and the exception rethrown to the caller
                e == IF e0.rearm /\ sched = "setTimeoutThrows"
                     THEN [e0 EXCEPT !.timers = CleanupLoadChecker(handle, e0.timers),
                                     !.rearm = FALSE,
                                     !.verdict = "SETUP_ERROR",
                                     !.error = "setup"]
                     ELSE e0
            IN  /\ usedInstance' = TRUE
                /\ steadyStateIntervals' = 0
                /\ mutationsCount' = 0
                /\ lastKnownNodeCountForMutationEvent' = 0
                /\ lastKnownNodeCountForNodeCountCheck' = 0
                /\ observing' = SetupMutationObserverIfPossible(support)
                /\ strategy' = IntervalHandler(support)
                /\ domMutationOrNodeCountIntervalCheck' = handle
                /\ user_callback' = cb
                /\ intervalCount' = e.intervalCount
                /\ intervalTimers' = e.timers
                /\ pendingTimeouts' = IF e.rearm THEN pendingTimeouts + 1 ELSE pendingTimeouts
                /\ phase' = e.verdict
                /\ cbCalls' = IF e.invoked THEN [cbCalls EXCEPT ![cb] = @ + 1] ELSE cbCalls
                /\ cbRaised' = (e.invoked /\ raises)
                /\ timeoutsRaised' = IF e.error = "timeout" THEN timeoutsRaised + 1
                                     ELSE timeoutsRaised
                /\ callLog' = Logged(callLog, [cb |-> cb, result |-> CallResult(e.error)])
                /\ notSteadyChecks' = IF e.verdict = "LOADED" THEN notSteadyChecks
                                      ELSE notSteadyChecks + 1
                /\ hist' = [hist EXCEPT !.base = nodeCount]
                /\ ticksSinceCheck' = 0
                /\ UNCHANGED <<treeVars, cfgVars, nodeCount,
                               recordsPending, uncaught, changedTicks,
                               quietTicks, liveUpdates>>

\* one firing of the setInterval timer t: the change observer it was given
IntervalFires(t) ==
    /\ t \in intervalTimers
    /\ ~recordsPending
    /\ ticksSinceCheck < MaxDrift
    /\ UNCHANGED pageVars
    /\ LET r == IF t.handler = "domMutationsCount"
                THEN DomMutationsCountObserver(mutationsCount, steadyStateIntervals)
                ELSE NodeCountChangeObserver(lastKnownNodeCountForNodeCountCheck,
                                             steadyStateIntervals, nodeCount)
       IN  /\ steadyStateIntervals' = r.steady
           /\ IF t.handler = "domMutationsCount"
              THEN /\ mutationsCount' = r.mutationsCount
                   /\ UNCHANGED lastKnownNodeCountForNodeCountCheck
              ELSE /\ lastKnownNodeCountForNodeCountCheck' = r.last
                   /\ UNCHANGED mutationsCount
           /\ changedTicks' = NextChangedTicks(changedTicks, r.changed)
           /\ quietTicks' = NextQuietTicks(quietTicks, r.changed)
    /\ ticksSinceCheck' = ticksSinceCheck + 1
    /\ hist' = NextHist(hist, nodeCount)
    /\ liveUpdates' = NextLive(liveUpdates)
    /\ UNCHANGED <<treeVars, cfgVars, domMutationOrNodeCountIntervalCheck, user_callback,
                   lastKnownNodeCountForMutationEvent, intervalCount, usedInstance>>
    /\ UNCHANGED <<nodeCount, strategy, observing,
                   recordsPending, intervalTimers, pendingTimeouts>>
    /\ UNCHANGED <<phase, callLog, cbCalls, cbRaised, timeoutsRaised, uncaught,
                   notSteadyChecks>>

\* one firing of the setTimeout armed by _executeCallbackAfterPageIsLoaded
TimeoutFires(raises, defined) ==
    /\ pendingTimeouts > 0
    /\ ~recordsPending
    /\ UNCHANGED pageVars
    /\ LET e == ExecuteCallbackAfterPageIsLoaded(steadyStateIntervals, intervalCount,
                     domMutationOrNodeCountIntervalCheck, intervalTimers, defined)
       IN  /\ intervalCount' = e.intervalCount
           /\ intervalTimers' = e.timers
           /\ pendingTimeouts' = IF e.rearm THEN pendingTimeouts ELSE pendingTimeouts - 1
           /\ phase' = e.verdict
           /\ cbCalls' = IF e.invoked THEN [cbCalls EXCEPT ![user_callback] = @ + 1]
                         ELSE cbCalls
           /\ cbRaised' = (cbRaised \/ (e.invoked /\ raises))
           /\ timeoutsRaised' = IF e.error = "timeout" THEN timeoutsRaised + 1
                                ELSE timeoutsRaised
           /\ uncaught' = IF e.error = "none" THEN uncaught ELSE uncaught \cup {e.error}
           /\ notSteadyChecks' = IF e.verdict = "LOADED" THEN notSteadyChecks
                                 ELSE notSteadyChecks + 1
    /\ ticksSinceCheck' = 0
    /\ UNCHANGED <<treeVars, cfgVars, domMutationOrNodeCountIntervalCheck, user_callback,
                   lastKnownNodeCountForMutationEvent, lastKnownNodeCountForNodeCountCheck,
                   mutationsCount, steadyStateIntervals, usedInstance>>
    /\ UNCHANGED <<nodeCount, strategy, observing,
                   recordsPending>>
    /\ UNCHANGED <<callLog, changedTicks, hist, quietTicks, liveUpdates>>

\* variant: the observer callback itself resets the steady counter when it
\* counts a change
DeliverMutationRecords_ResetsSteady ==
    /\ recordsPending
    /\ UNCHANGED pageVars
    /\ LET r == MutationCallback(lastKnownNodeCountForMutationEvent, mutationsCount,
                                 nodeCount)
       IN  /\ lastKnownNodeCountForMutationEvent' = r.last
           /\ mutationsCount' = r.mutationsCount
           /\ steadyStateIntervals' = IF r.mutationsCount # mutationsCount THEN 0
                                      ELSE steadyStateIntervals
    /\ recordsPending' = FALSE
    /\ UNCHANGED <<treeVars, cfgVars, domMutationOrNodeCountIntervalCheck, user_callback,
                   lastKnownNodeCountForNodeCountCheck, intervalCount, usedInstance>>
    /\ UNCHANGED <<nodeCount, strategy, observing,
                   intervalTimers, pendingTimeouts, ticksSinceCheck>>
    /\ UNCHANGED obsVars

\* delivery of the queued mutation records to the MutationObserver callback
DeliverMutationRecords ==
    /\ recordsPending
    /\ UNCHANGED pageVars
    /\ LET r == MutationCallback(lastKnownNodeCountForMutationEvent, mutationsCount,
                                 nodeCount)
       IN  /\ lastKnownNodeCountForMutationEvent' = r.last
           /\ mutationsCount' = r.mutationsCount
    /\ recordsPending' = FALSE
    /\ UNCHANGED <<treeVars, cfgVars, domMutationOrNodeCountIntervalCheck, user_callback,
                   lastKnownNodeCountForNodeCountCheck, intervalCount,
                   steadyStateIntervals, usedInstance>>
    /\ UNCHANGED <<nodeCount, strategy, observing,
                   intervalTimers, pendingTimeouts, ticksSinceCheck>>
    /\ UNCHANGED obsVars

\* the page adds or removes elements: the element count becomes n
DomChildListChange(n) ==
    /\ n \in 1..MaxNodes
    /\ n # nodeCount
    /\ observing => mutationsCount < MaxMutations
    /\ \A i \in pageObservers : instances[i].mutationsCount < MaxMutations
    /\ nodeCount' = n
    /\ recordsPending' = (recordsPending \/ observing)
    /\ pageQueued' = pageQueued \cup pageObservers
    /\ UNCHANGED <<instances, pageTimers, pageTimeouts, pageObservers, watch,
                   crossTalk>>
    /\ hist' = EditedHist(hist)
    /\ liveUpdates' = RecountedLive(liveUpdates)
    /\ UNCHANGED <<treeVars, cfgVars, stateVars>>
    /\ UNCHANGED <<strategy, observing, intervalTimers,
                   pendingTimeouts, ticksSinceCheck>>
    /\ UNCHANGED <<phase, callLog, cbCalls, cbRaised, timeoutsRaised, uncaught,
                   notSteadyChecks, changedTicks, quietTicks>>

\* the page changes an attribute or a text: the element count is unchanged
DomAttributeChange ==
    /\ observing \/ phase = "WATCHING" \/ pageObservers # {}
    /\ observing => mutationsCount < MaxMutations
    /\ \A i \in pageObservers : instances[i].mutationsCount < MaxMutations
    /\ recordsPending' = (recordsPending \/ observing)
    /\ pageQueued' = pageQueued \cup pageObservers
    /\ UNCHANGED <<instances, pageTimers, pageTimeouts, pageObservers, watch,
                   crossTalk>>
    /\ hist' = EditedHist(hist)
    /\ liveUpdates' = UpdatedLive(liveUpdates)
    /\ UNCHANGED <<treeVars, cfgVars, stateVars>>
    /\ UNCHANGED <<nodeCount, strategy, observing,
                   intervalTimers, pendingTimeouts, ticksSinceCheck>>
    /\ UNCHANGED <<phase, callLog, cbCalls, cbRaised, timeoutsRaised, uncaught,
                   notSteadyChecks, changedTicks, quietTicks>>

\* ------------------------------------------------------ specifications
\* inputs a step does not read are not enumerated: the callback and the
\* global are read only by a load check that finds the threshold reached,
\* the MutationObserver only by a call that gets to the setup
ReadsCallback(steady) == steady >= READY_AFTER_N_STEADY_STATE_INTERVALS
ReadsSupport ==
    /\ ~InstanceAlreadyUsed
    /\ ~ValidateConfigurationThrows(READY_AFTER_N_STEADY_STATE_INTERVALS,
                                    EXIT_REGARDLESS_AFTER_MAX_INTERVALS)

Call == \E cb \in Callbacks, support \in Support, raises \in BOOLEAN, defined \in BOOLEAN :
            /\ ReadsSupport \/ support = "ok"
            /\ (ReadsSupport /\ ReadsCallback(0)) \/ (~raises /\ defined)
            /\ callWhenReadyToGo(cb, support, raises, defined, "ok")
\* a call on a host whose timer functions may throw
FaultyCall ==
    \E cb \in Callbacks, support \in Support, raises \in BOOLEAN, defined \in BOOLEAN,
       sched \in Sched :
            /\ ReadsSupport \/ (support = "ok" /\ sched = "ok")
            /\ (ReadsSupport /\ ReadsCallback(0)) \/ (~raises /\ defined)
            /\ callWhenReadyToGo(cb, support, raises, defined, sched)
Tick == \E t \in intervalTimers : IntervalFires(t)
Check == \E raises \in BOOLEAN, defined \in BOOLEAN :
            /\ ReadsCallback(steadyStateIntervals) \/ (~raises /\ defined)
            /\ TimeoutFires(raises, defined)
ChildList == \E n \in 1..MaxNodes : DomChildListChange(n)

\* the host may run due timers in any order
Next ==
    \/ Call
    \/ Tick
    \/ Check
    \/ DeliverMutationRecords
    \/ ChildList
    \/ DomAttributeChange

Spec == Init /\ [][Next]_vars

\* a host whose setInterval or setTimeout may throw during the call
NextFault ==
    \/ FaultyCall
    \/ Tick
    \/ Check
    \/ DeliverMutationRecords
    \/ ChildList
    \/ DomAttributeChange

FaultSpec == Init /\ [][NextFault]_vars

\* a host that keeps running due timers and delivers queued records
FairSpec == Spec /\ SF_vars(Check) /\ WF_vars(DeliverMutationRecords)

\* a clock without drift: both timers are due at the same instants and the
\* interval, armed first, runs first
ClockTick == ticksSinceCheck = 0 /\ Tick
ClockCheck == (ticksSinceCheck = 1 \/ intervalTimers = {}) /\ Check

NextClock ==
    \/ Call
    \/ ClockTick
    \/ ClockCheck
    \/ DeliverMutationRecords
    \/ ChildList
    \/ DomAttributeChange

ClockSpec == InitClock /\ [][NextClock]_vars

\* a host that keeps running the timers that are due
FairClockSpec == ClockSpec /\ WF_vars(ClockTick) /\ WF_vars(ClockCheck)

\* ---------------------------------------------- counting the elements
\* this._countElements(document.childNodes) on a tree the page may edit
\* between two calls (counted keeps the results since the latest edit)
CountElementsCalled ==
    /\ Len(counted) < 2
    /\ counted' = Append(counted, CountElements(tree, 0))
    /\ UNCHANGED <<tree, cfgVars, stateVars, hostVars, obsVars, pageVars>>

\* the page moves a node or replaces it by a node of another type
TreeEdited ==
    /\ \E t \in Trees :
          /\ Cardinality({i \in TreeNodes : t.parent[i] # tree.parent[i]
                                            \/ t.nodeType[i] # tree.nodeType[i]}) = 1
          /\ tree' = t
    /\ counted' = <<>>
    /\ UNCHANGED <<cfgVars, stateVars, hostVars, obsVars, pageVars>>

NextCount ==
    \/ CountElementsCalled
    \/ TreeEdited

\* any tree under a fresh instance
InitCount ==
    /\ NewInstance(0, 1)
    /\ nodeCount = 1
    /\ tree \in Trees
    /\ counted = <<>>

CountSpec == InitCount /\ [][NextCount]_vars

\* ------------------------------------------- a page with two instances
\* The handlers given to setInterval, setTimeout and MutationObserver are
\* closures over the local variable loadCheckerInstance (lines 124, 185,
\* 284), which holds the instance that armed them.  The callbacks' own
\* errors change no field and no timer, so they are left out here.

\* variant: loadCheckerInstance is one shared global, left pointing at the
\* instance that was set up last
Receiver_SharedGlobal(owner) ==
    CHOOSE i \in Instances : \A j \in Instances :
        instances[j].domMutationOrNodeCountIntervalCheck <=
            instances[i].domMutationOrNodeCountIntervalCheck

\* the instance a handler armed by `owner` acts on
Receiver(owner) == owner

\* the step changes a field, a timer or the callback count of an instance
\* other than `owner`, or invokes a callback that is not owner's
ChangesOther(owner) ==
    \E j \in Instances \ {owner} :
        \/ instances'[j] # instances[j]
        \/ {t \in pageTimers' : t.owner = j} # {t \in pageTimers : t.owner = j}
        \/ watch'[j].cbCalls # watch[j].cbCalls

\* handle returned by the next setInterval of the page
NextHandle ==
    Cardinality({j \in Instances :
                    instances[j].domMutationOrNodeCountIntervalCheck # 0}) + 1

\* instances[self].callWhenReadyToGo(callback of self)
Page_callWhenReadyToGo(self, support) ==
    /\ UNCHANGED <<treeVars, cfgVars, stateVars, hostVars, obsVars, pageQueued>>
    /\ IF instances[self].usedInstance
       THEN UNCHANGED <<instances, pageTimers, pageTimeouts, pageObservers, watch>>
       ELSE IF ValidateConfigurationThrows(READY_AFTER_N_STEADY_STATE_INTERVALS,
                                           EXIT_REGARDLESS_AFTER_MAX_INTERVALS)
       THEN /\ instances' = [instances EXCEPT ![self].usedInstance = TRUE]
            /\ watch' = [watch EXCEPT ![self].phase = "CONFIG_ERROR"]
            /\ UNCHANGED <<pageTimers, pageTimeouts, pageObservers>>
       ELSE LET handle == NextHandle
                armed == pageTimers \cup
                           {[id |-> handle, handler |-> IntervalHandler(support),
                             owner |-> self]}
                e == ExecuteCallbackAfterPageIsLoaded(0, 0, handle, armed, TRUE)
            IN  /\ instances' = [instances EXCEPT ![self] =
                       [domMutationOrNodeCountIntervalCheck |-> handle,
                        user_callback |-> self,
                        lastKnownNodeCountForMutationEvent |-> 0,
                        lastKnownNodeCountForNodeCountCheck |-> 0,
                        mutationsCount |-> 0,
                        intervalCount |-> e.intervalCount,
                        steadyStateIntervals |-> 0,
                        usedInstance |-> TRUE]]
                /\ pageTimers' = e.timers
                /\ pageTimeouts' = IF e.rearm THEN pageTimeouts \cup {self}
                                   ELSE pageTimeouts
                /\ pageObservers' = IF SetupMutationObserverIfPossible(support)
                                    THEN pageObservers \cup {self} ELSE pageObservers
                /\ watch' = [watch EXCEPT ![self] =
                       [phase |-> e.verdict, ticksSinceCheck |-> 0,
                        cbCalls |-> IF e.invoked THEN @.cbCalls + 1 ELSE @.cbCalls]]
    /\ crossTalk' = (crossTalk \/ ChangesOther(self))

\* one firing of the page's setInterval timer t
Page_IntervalFires(t) ==
    /\ t \in pageTimers
    /\ pageQueued = {}
    /\ LET this == instances[Receiver(t.owner)]
           r == IF t.handler = "domMutationsCount"
                THEN DomMutationsCountObserver(this.mutationsCount,
                                               this.steadyStateIntervals)
                ELSE NodeCountChangeObserver(this.lastKnownNodeCountForNodeCountCheck,
                                             this.steadyStateIntervals, nodeCount)
       IN  instances' = [instances EXCEPT ![Receiver(t.owner)] =
               IF t.handler = "domMutationsCount"
               THEN [this EXCEPT !.steadyStateIntervals = r.steady,
                                 !.mutationsCount = r.mutationsCount]
               ELSE [this EXCEPT !.steadyStateIntervals = r.steady,
                                 !.lastKnownNodeCountForNodeCountCheck = r.last]]
    /\ watch' = [watch EXCEPT ![t.owner].ticksSinceCheck = @ + 1]
    /\ UNCHANGED <<pageTimers, pageTimeouts, pageObservers, pageQueued>>
    /\ crossTalk' = (crossTalk \/ ChangesOther(t.owner))
    /\ UNCHANGED <<treeVars, cfgVars, stateVars, hostVars, obsVars>>

\* one firing of the setTimeout armed by instance self
Page_TimeoutFires(self) ==
    /\ self \in pageTimeouts
    /\ pageQueued = {}
    /\ LET to == Receiver(self)
           this == instances[to]
           e == ExecuteCallbackAfterPageIsLoaded(this.steadyStateIntervals,
                    this.intervalCount, this.domMutationOrNodeCountIntervalCheck,
                    pageTimers, TRUE)
           done == [watch EXCEPT ![self].ticksSinceCheck = 0, ![to].phase = e.verdict]
       IN  /\ instances' = [instances EXCEPT ![to].intervalCount = e.intervalCount]
           /\ pageTimers' = e.timers
           /\ pageTimeouts' = IF e.rearm THEN (pageTimeouts \ {self}) \cup {to}
                              ELSE pageTimeouts \ {self}
           /\ watch' = IF e.invoked /\ this.user_callback \in Instances
                       THEN [done EXCEPT ![this.user_callback].cbCalls = @ + 1]
                       ELSE done
    /\ crossTalk' = (crossTalk \/ ChangesOther(self))
    /\ UNCHANGED <<treeVars, cfgVars, stateVars, hostVars, obsVars>>
    /\ UNCHANGED <<pageObservers, pageQueued>>

\* delivery of the queued mutation records to the observer of instance self
Page_DeliverMutationRecords(self) ==
    /\ self \in pageQueued
    /\ LET to == Receiver(self)
           this == instances[to]
           r == MutationCallback(this.lastKnownNodeCountForMutationEvent,
                                 this.mutationsCount, nodeCount)
       IN  instances' = [instances EXCEPT ![to] =
               [this EXCEPT !.lastKnownNodeCountForMutationEvent = r.last,
                            !.mutationsCount = r.mutationsCount]]
    /\ pageQueued' = pageQueued \ {self}
    /\ UNCHANGED <<treeVars, cfgVars, stateVars, hostVars, obsVars>>
    /\ UNCHANGED <<pageTimers, pageTimeouts, pageObservers, watch>>
    /\ crossTalk' = (crossTalk \/ ChangesOther(self))

\* the configuration is read only by a call on an unused instance
PageReadsSupport(self) ==
    /\ ~instances[self].usedInstance
    /\ ~ValidateConfigurationThrows(READY_AFTER_N_STEADY_STATE_INTERVALS,
                                    EXIT_REGARDLESS_AFTER_MAX_INTERVALS)

\* the page uses its instances in the order it created them
PairCall == \E self \in Instances, support \in Support :
                /\ \A j \in Instances : j < self => instances[j].usedInstance
                /\ PageReadsSupport(self) \/ support = "ok"
                /\ Page_callWhenReadyToGo(self, support)
\* the timers of the two instances interleave freely; the interval of one
\* instance runs at most MaxDrift - 1 times between two of its load checks
PairTick == \E t \in pageTimers :
                /\ watch[t.owner].ticksSinceCheck < MaxDrift - 1
                /\ Page_IntervalFires(t)
PairCheck == \E self \in Instances : Page_TimeoutFires(self)
PairDeliver == \E self \in Instances : Page_DeliverMutationRecords(self)

\* the host may run the due timers of both instances in any order
\* the page edits the DOM while a watch is running
PairWatching == \E i \in Instances : watch[i].phase = "WATCHING"
PairChildList == PairWatching /\ ChildList
PairAttributeChange == PairWatching /\ DomAttributeChange

NextPair ==
    \/ PairCall
    \/ PairTick
    \/ PairCheck
    \/ PairDeliver
    \/ PairChildList
    \/ PairAttributeChange

\* the page with two instances is checked with thresholds one smaller
InitPair == Created(MaxReady - 1, MaxMax - 1)

PairSpec == InitPair /\ [][NextPair]_vars

\* Two watches fed the same DOM events on one drift-free clock: instance 1
\* on a host with MutationObserver, instance 2 on a host without.  Both are
\* started at the same instant; in every period the intervals run, 1 before
\* 2, then the load checks, 1 before 2, and the page adds or removes elements
\* between two periods.
HasTimer(i) == \E t \in pageTimers : t.owner = i
TwinsStarted == \A i \in Instances : instances[i].usedInstance

TwinCall == \E self \in Instances :
                /\ \A j \in Instances : j < self => instances[j].usedInstance
                /\ ~instances[self].usedInstance
                /\ Page_callWhenReadyToGo(self, IF self = 1 THEN "ok" ELSE "missing")
TwinTick == \E t \in pageTimers :
                /\ TwinsStarted
                /\ watch[t.owner].ticksSinceCheck = 0
                /\ \A j \in Instances :
                       /\ (j < t.owner /\ HasTimer(j)) => watch[j].ticksSinceCheck = 1
                       /\ j > t.owner => watch[j].ticksSinceCheck = 0
                /\ Page_IntervalFires(t)
TwinCheck == \E self \in Instances :
                /\ TwinsStarted
                /\ watch[self].ticksSinceCheck = 1
                /\ \A j \in Instances :
                       /\ (j > self /\ HasTimer(j)) => watch[j].ticksSinceCheck = 1
                       /\ j < self => ~(j \in pageTimeouts /\ watch[j].ticksSinceCheck = 1)
                /\ Page_TimeoutFires(self)
TwinChildList ==
    /\ TwinsStarted
    /\ PairWatching
    /\ \A j \in Instances : watch[j].ticksSinceCheck = 0
    /\ ChildList

NextTwin ==
    \/ TwinCall
    \/ TwinTick
    \/ TwinCheck
    \/ PairDeliver
    \/ TwinChildList

TwinSpec == Init /\ [][NextTwin]_vars

\* ------------------------------------------- the singleton LoadChecker
\* src/public/javascripts/load-checker.js: one object LoadChecker = {} whose
\* fields are the variables above (it has no _usedInstance).  Its
\* _domMutationsCountObserver, MutationObserver callback, _cleanupLoadChecker,
\* _isPageLoaded, _executeCallbackAfterPageIsLoaded and _validateConfiguration
\* read as the instance's with LoadChecker for this, so the operators and the
\* actions TimeoutFires and DeliverMutationRecords above stand for them; every
\* setup subscribes one more MutationObserver, and observers after the first
\* find the recorded count already updated and count nothing.

\* LoadChecker._nodeCountChangeObserver (lines 65-76) on (baseline, steady)
Singleton_NodeCountChangeObserver(last, steady, current) ==
    IF last # current
    THEN [changed |-> TRUE, steady |-> steady, last |-> current]
    ELSE [changed |-> FALSE, steady |-> steady + 1, last |-> last]

\* LoadChecker.callWhenReadyToGo(cb) of the singleton: no reuse guard;
\* _setupLoadChecker resets three counters, arms a new interval and
\* overwrites the stored handle
Singleton_callWhenReadyToGo(cb, support, raises, defined) ==
    /\ cb = (IF callLog = <<>> THEN 1 ELSE 2)
    /\ UNCHANGED pageVars
    /\ IF ValidateConfigurationThrows(READY_AFTER_N_STEADY_STATE_INTERVALS,
                                      EXIT_REGARDLESS_AFTER_MAX_INTERVALS)
       THEN /\ callLog' = Logged(callLog, [cb |-> cb, result |-> "config"])
            /\ phase' = "CONFIG_ERROR"
            /\ UNCHANGED <<treeVars, cfgVars, stateVars, hostVars>>
            /\ UNCHANGED <<cbCalls, cbRaised, timeoutsRaised, uncaught,
                           notSteadyChecks, changedTicks, hist, quietTicks, liveUpdates>>
       ELSE /\ domMutationOrNodeCountIntervalCheck < MaxWatches
            /\ LET handle == domMutationOrNodeCountIntervalCheck + 1
                   armed == intervalTimers \cup
                              {[id |-> handle, handler |-> IntervalHandler(support)]}
                   e == ExecuteCallbackAfterPageIsLoaded(0, 0, handle, armed, defined)
               IN  /\ steadyStateIntervals' = 0
                   /\ mutationsCount' = 0
                   /\ observing' = (observing \/ SetupMutationObserverIfPossible(support))
                   /\ strategy' = IntervalHandler(support)
                   /\ domMutationOrNodeCountIntervalCheck' = handle
                   /\ user_callback' = cb
                   /\ intervalCount' = e.intervalCount
                   /\ intervalTimers' = e.timers
                   /\ pendingTimeouts' = IF e.rearm THEN pendingTimeouts + 1
                                         ELSE pendingTimeouts
                   /\ phase' = e.verdict
                   /\ cbCalls' = IF e.invoked THEN [cbCalls EXCEPT ![cb] = @ + 1]
                                 ELSE cbCalls
                   /\ cbRaised' = (cbRaised \/ (e.invoked /\ raises))
                   /\ timeoutsRaised' = IF e.error = "timeout" THEN timeoutsRaised + 1
                                        ELSE timeoutsRaised
                   /\ callLog' = Logged(callLog, [cb |-> cb, result |-> CallResult(e.error)])
                   /\ notSteadyChecks' = IF e.verdict = "LOADED" THEN notSteadyChecks
                                         ELSE notSteadyChecks + 1
                   /\ quietTicks' = 0
                   /\ ticksSinceCheck' = 0
                   \* the shape of the DOM activity is not followed for the singleton
                   /\ hist' = NoShape
                   /\ liveUpdates' = "off"
                   /\ UNCHANGED <<treeVars, cfgVars, lastKnownNodeCountForMutationEvent,
                                  lastKnownNodeCountForNodeCountCheck, usedInstance,
                                  nodeCount, recordsPending, uncaught, changedTicks>>

\* one firing of the singleton's setInterval timer t
Singleton_IntervalFires(t) ==
    /\ t \in intervalTimers
    /\ ~recordsPending
    /\ ticksSinceCheck < MaxDrift
    /\ UNCHANGED pageVars
    /\ LET r == IF t.handler = "domMutationsCount"
                THEN DomMutationsCountObserver(mutationsCount, steadyStateIntervals)
                ELSE Singleton_NodeCountChangeObserver(lastKnownNodeCountForNodeCountCheck,
                                                       steadyStateIntervals, nodeCount)
       IN  /\ steadyStateIntervals' = r.steady
           /\ IF t.handler = "domMutationsCount"
              THEN /\ mutationsCount' = r.mutationsCount
                   /\ UNCHANGED lastKnownNodeCountForNodeCountCheck
              ELSE /\ lastKnownNodeCountForNodeCountCheck' = r.last
                   /\ UNCHANGED mutationsCount
           /\ quietTicks' = NextQuietTicks(quietTicks, r.changed)
    /\ ticksSinceCheck' = ticksSinceCheck + 1
    /\ UNCHANGED <<treeVars, cfgVars, domMutationOrNodeCountIntervalCheck, user_callback,
                   lastKnownNodeCountForMutationEvent, intervalCount, usedInstance>>
    /\ UNCHANGED <<nodeCount, strategy, observing,
                   recordsPending, intervalTimers, pendingTimeouts>>
    /\ UNCHANGED <<phase, callLog, cbCalls, cbRaised, timeoutsRaised, uncaught,
                   notSteadyChecks, changedTicks, hist, liveUpdates>>

SingletonCall ==
    \E cb \in Callbacks, support \in Support, raises \in BOOLEAN, defined \in BOOLEAN :
        /\ ReadsSupport \/ support = "ok"
        /\ (ReadsSupport /\ ReadsCallback(0)) \/ (~raises /\ defined)
        \* the host's MutationObserver capability is the same at every call
        /\ strategy = "none" \/ IntervalHandler(support) = strategy
        /\ Singleton_callWhenReadyToGo(cb, support, raises, defined)
SingletonTick == \E t \in intervalTimers : Singleton_IntervalFires(t)

NextSingleton ==
    \/ SingletonCall
    \/ SingletonTick
    \/ Check
    \/ DeliverMutationRecords
    \/ ChildList
    \/ DomAttributeChange

SingletonSpec == Init /\ [][NextSingleton]_vars

TypeOK ==
    /\ steadyStateIntervals \in Nat
    /\ intervalCount \in Nat
    /\ mutationsCount \in Nat
    /\ pendingTimeouts \in Nat
    /\ quietTicks \in Nat
    /\ liveUpdates \in {"idle", "seen", "off"}
    /\ phase \in {"CREATED", "CONFIG_ERROR", "SETUP_ERROR", "WATCHING", "LOADED",
                 "TIMED_OUT"}

\* ------------------------------------------------------------- claims
Ended == phase \in {"LOADED", "TIMED_OUT"}
TotalCallbackCalls == cbCalls[1] + cbCalls[2]
PollingStrategy == strategy = "nodeCountChange"

\* C1: the user callback is invoked at most once, and exactly once (the
\* stored callback, no other) when the watch has ended LOADED.
C1_CallbackAtMostOnce ==
    /\ TotalCallbackCalls <= 1
    /\ phase = "LOADED" => (user_callback # 0 /\ cbCalls[user_callback] = 1)
    /\ TotalCallbackCalls = 1 => phase = "LOADED"

C1_Witness ==
    /\ phase = "LOADED"
    /\ steadyStateIntervals >= 2
    /\ cbCalls[user_callback] = 1
    /\ Len(callLog) = 2

\* C2: LOADED and TIMED_OUT exclude each other: no state has both a callback
\* invocation and a raised timeout, and after either the other never happens.
C2_OutcomesExclusive ==
    [][ /\ ~(TotalCallbackCalls' > 0 /\ timeoutsRaised' > 0)
        /\ TotalCallbackCalls > 0 => (timeoutsRaised' = 0 /\ phase' = "LOADED")
        /\ timeoutsRaised > 0 => (TotalCallbackCalls' = 0 /\ phase' = "TIMED_OUT") ]_vars

C2_Witness ==
    /\ phase = "TIMED_OUT"
    /\ timeoutsRaised = 1
    /\ Len(callLog) = 2
    /\ steadyStateIntervals > 0

\* C3: with a host that keeps firing due timers, a started watch ends LOADED
\* or TIMED_OUT, after at most maxIntervals + 1 load checks that found the
\* threshold not reached.
C3_WatchTerminates ==
    /\ [](notSteadyChecks <= EXIT_REGARDLESS_AFTER_MAX_INTERVALS + 1)
    /\ (phase = "WATCHING") ~> Ended

C3_Witness ==
    /\ phase = "TIMED_OUT"
    /\ notSteadyChecks = EXIT_REGARDLESS_AFTER_MAX_INTERVALS + 1
    /\ changedTicks # 0

C5_ConfigurationRejected ==
    (READY_AFTER_N_STEADY_STATE_INTERVALS >= EXIT_REGARDLESS_AFTER_MAX_INTERVALS
       /\ Len(callLog) >= 1) =>
          /\ callLog[1].result = "config"
          /\ phase = "CONFIG_ERROR"
          /\ intervalTimers = {} /\ pendingTimeouts = 0 /\ ~observing
          /\ domMutationOrNodeCountIntervalCheck = 0
          /\ steadyStateIntervals = 0 /\ intervalCount = 0 /\ mutationsCount = 0
          /\ changedTicks = 0 /\ ObserverTicks = 0 /\ notSteadyChecks = 0
          /\ TotalCallbackCalls = 0

C5_Witness ==
    /\ READY_AFTER_N_STEADY_STATE_INTERVALS = EXIT_REGARDLESS_AFTER_MAX_INTERVALS
    /\ Len(callLog) = 2
    /\ callLog[1].result = "config"

\* C6: if the page never edits the DOM during the watch, then under either
\* strategy the watch ends LOADED after exactly steadyIntervalsRequired ticks
\* of the change observer, with the interval timer cleared.
C6_QuietDomExactTicks ==
    (Ended /\ hist.ok /\ hist.k = 0 /\ ~hist.edited) =>
        /\ phase = "LOADED"
        /\ ObserverTicks = READY_AFTER_N_STEADY_STATE_INTERVALS
        /\ intervalTimers = {}

\* C7: if every tick of the observer detected a change, the watch ends with
\* the timeout error after exactly maxIntervals + 1 not-steady load checks,
\* no callback was invoked and the interval timer is cleared.
C7_AlwaysChangingTimesOut ==
    (Ended /\ changedTicks > 0) =>
        /\ phase = "TIMED_OUT"
        /\ timeoutsRaised = 1
        /\ notSteadyChecks = EXIT_REGARDLESS_AFTER_MAX_INTERVALS + 1
        /\ TotalCallbackCalls = 0
        /\ intervalTimers = {}

C7_Witness ==
    /\ phase = "TIMED_OUT"
    /\ changedTicks >= EXIT_REGARDLESS_AFTER_MAX_INTERVALS

C8_TicksNeeded ==
    IF PollingStrategy /\ hist.k = 0 /\ READY_AFTER_N_STEADY_STATE_INTERVALS > 0
    THEN READY_AFTER_N_STEADY_STATE_INTERVALS + 1
    ELSE hist.k + READY_AFTER_N_STEADY_STATE_INTERVALS

C9_NoErrorEscapes ==
    phase = "LOADED" =>
        /\ "reference" \notin uncaught
        /\ \A i \in 1..Len(callLog) : callLog[i].result # "reference"
        /\ intervalTimers = {}

\* C10: a run that ends TIMED_OUT has reported the timeout error to the
\* caller of callWhenReadyToGo.
C10_TimeoutReachesCaller ==
    phase = "TIMED_OUT" =>
        \E i \in 1..Len(callLog) : callLog[i].result = "timeout"

\* C11: once the watch has ended (callback returned, callback raised or timeout
\* raised) the setInterval handle is cleared and no setTimeout re-run of the
\* load check is pending, and from then on no tick or check handler runs.
C11_TickHandleReleased ==
    /\ [](Ended => (intervalTimers = {} /\ pendingTimeouts = 0))
    /\ [][Ended => UNCHANGED <<steadyStateIntervals, intervalCount, ticksSinceCheck,
                               notSteadyChecks, intervalTimers, pendingTimeouts>>]_vars

C11_Witness ==
    /\ phase = "LOADED"
    /\ cbRaised
    /\ "reference" \in uncaught
    /\ steadyStateIntervals > 0
    /\ intervalTimers = {} /\ pendingTimeouts = 0

\* C12: under the mutation-based strategy the MutationObserver subscribed at
\* setup is released when the watch ends: after LOADED or TIMED_OUT it is no
\* longer subscribed and its callback no longer changes the instance.
C12_SubscriptionReleased ==
    /\ [](Ended => ~observing)
    /\ [][Ended => UNCHANGED <<lastKnownNodeCountForMutationEvent, mutationsCount>>]_vars

\* the first call of the entry point gets past both guards
FirstCallSetsUp ==
    /\ callLog = <<>> /\ callLog' # <<>>
    /\ READY_AFTER_N_STEADY_STATE_INTERVALS < EXIT_REGARDLESS_AFTER_MAX_INTERVALS

\* a step in which the callback is invoked or the timeout error is raised
CompletionDelivered == cbCalls' # cbCalls \/ timeoutsRaised' # timeoutsRaised

\* the entry point returns with the watch scheduled and not completed, and a
\* completion comes from the firing of a pending timer
ReturnsBeforeCompletion ==
    /\ FirstCallSetsUp =>
          /\ callLog'[1].result = "returned"
          /\ phase' = "WATCHING"
          /\ intervalTimers' # {} /\ pendingTimeouts' = 1
          /\ UNCHANGED <<cbCalls, timeoutsRaised>>
    /\ CompletionDelivered => (callLog' = callLog /\ pendingTimeouts > 0)

\* C14 as stated: for every valid configuration, steadyIntervalsRequired = 0
\* included, callWhenReadyToGo returns after scheduling and before the watch
\* completes; callback and timeout error only come from a later timer firing.
C14_Original == [][ReturnsBeforeCompletion]_vars

\* C14 amended: the same for every valid configuration with
\* steadyIntervalsRequired >= 1.
C14_Amended ==
    [][READY_AFTER_N_STEADY_STATE_INTERVALS >= 1 => ReturnsBeforeCompletion]_vars

C14_Witness ==
    /\ READY_AFTER_N_STEADY_STATE_INTERVALS >= 1
    /\ Len(callLog) = 1 /\ callLog[1].result = "returned"
    /\ phase = "LOADED"
    /\ cbCalls[1] = 1

\* a watch of the page has ended
PageEnded(i) == watch[i].phase \in {"LOADED", "TIMED_OUT"}

\* C13: fed the same element additions and removals at the same points
\* relative to the ticks, under the same configuration, the watch with the
\* mutation-based strategy and the watch with the polling-based strategy end
\* with the same verdict.
C13_SameVerdict ==
    (PageEnded(1) /\ PageEnded(2)) => watch[1].phase = watch[2].phase

\* C15: two instances watching at the same time do not interfere: no handler
\* of one changes a field, the timer or the callback of the other, and each
\* instance holds and invokes only its own callback, at most once.
C15_NoCrossTalk ==
    /\ ~crossTalk
    /\ \A i \in Instances :
           /\ watch[i].cbCalls <= 1
           /\ instances[i].user_callback \in {0, i}
           /\ watch[i].cbCalls = 1 => watch[i].phase = "LOADED"

C15_Witness ==
    /\ watch[1].phase = "LOADED" /\ watch[1].cbCalls = 1
    /\ watch[2].phase = "WATCHING" /\ watch[2].cbCalls = 0
    /\ instances[2].steadyStateIntervals = 0
    /\ instances[2].intervalCount >= 2
    /\ instances[1].intervalCount >= 1
    /\ HasTimer(2) /\ ~HasTimer(1)

\* every watch that was started has ended
AllWatchesEnded == Ended /\ pendingTimeouts = 0

\* C16: on the singleton, when callWhenReadyToGo(cb1) is followed by
\* callWhenReadyToGo(cb2), each of cb1 and cb2 is invoked at most once, and
\* once all watches have ended every interval timer created has been cleared.
C16_SingletonExactlyOnce ==
    /\ cbCalls[1] <= 1
    /\ cbCalls[2] <= 1
    /\ AllWatchesEnded => intervalTimers = {}

\* C17: under the mutation-based strategy, a page that updates attributes or
\* texts in every interval of the watch and never changes its element count
\* does not run into the timeout: the watch ends LOADED.
C17_LiveUpdatesLoad ==
    (Ended /\ strategy = "domMutationsCount" /\ liveUpdates # "off") =>
        /\ phase = "LOADED"
        /\ timeoutsRaised = 0

C17_Witness ==
    /\ phase = "LOADED"
    /\ strategy = "domMutationsCount"
    /\ liveUpdates # "off"
    /\ READY_AFTER_N_STEADY_STATE_INTERVALS >= 2
    /\ notSteadyChecks = READY_AFTER_N_STEADY_STATE_INTERVALS + 1

\* the change observer of timer t detects a change in the current state
DetectsChange(t) ==
    IF t.handler = "domMutationsCount" THEN mutationsCount > 0
    ELSE lastKnownNodeCountForNodeCountCheck # nodeCount

\* C18: every tick of the change observer, under either strategy and in every
\* copy of the code, sets _steadyStateIntervals to 0 if it detected a change
\* and adds exactly 1 otherwise; the counter is never negative and after the
\* setup (which zeroes it) no other step changes it.
C18_SteadyCounter ==
    /\ [](steadyStateIntervals >= 0)
    /\ [][ IF ticksSinceCheck' = ticksSinceCheck + 1
           THEN \E t \in intervalTimers :
                    steadyStateIntervals' =
                        (IF DetectsChange(t) THEN 0 ELSE steadyStateIntervals + 1)
           ELSE IF domMutationOrNodeCountIntervalCheck' #
                       domMutationOrNodeCountIntervalCheck
           THEN steadyStateIntervals' = 0
           ELSE steadyStateIntervals' = steadyStateIntervals ]_vars

\* C19: the callback is invoked only in a state where _steadyStateIntervals
\* has reached the threshold and the latest steadyIntervalsRequired ticks of
\* the change observer each reported no change.
C19_NoFalseLoaded ==
    [][ cbCalls' # cbCalls =>
          /\ steadyStateIntervals' >= READY_AFTER_N_STEADY_STATE_INTERVALS
          /\ quietTicks' >= READY_AFTER_N_STEADY_STATE_INTERVALS ]_vars

\* C20: _intervalCount grows by exactly 1 on each load check that finds the
\* threshold not reached and stays as it is on every other step, the check
\* that finds it reached included; it stays within 0..maxIntervals + 1; the
\* timeout error is raised exactly on the increment that takes it past
\* maxIntervals.
C20_ElapsedIntervals ==
    /\ [](intervalCount \in 0..(EXIT_REGARDLESS_AFTER_MAX_INTERVALS + 1))
    /\ [][ /\ notSteadyChecks' = notSteadyChecks + 1 =>
                 intervalCount' = intervalCount + 1
           /\ notSteadyChecks' = notSteadyChecks => intervalCount' = intervalCount
           /\ cbCalls' # cbCalls => intervalCount' = intervalCount
           /\ timeoutsRaised' \in {timeoutsRaised, timeoutsRaised + 1}
           /\ timeoutsRaised' = timeoutsRaised + 1 <=>
                 (/\ intervalCount' = intervalCount + 1
                  /\ intervalCount' > EXIT_REGARDLESS_AFTER_MAX_INTERVALS) ]_vars

C20_Witness ==
    /\ phase = "TIMED_OUT"
    /\ timeoutsRaised = 1
    /\ intervalCount = EXIT_REGARDLESS_AFTER_MAX_INTERVALS + 1
    /\ notSteadyChecks = intervalCount

\* the page has not touched the DOM since the watch started
QuietWatch == hist.ok /\ hist.k = 0 /\ ~hist.edited

\* C21: for every configuration the validation accepts and under either
\* strategy, a watch on a DOM that is not edited after watch start never
\* raises the timeout error and ends LOADED.
C21_QuietDomLoads ==
    /\ [](QuietWatch => (phase # "TIMED_OUT" /\ timeoutsRaised = 0))
    /\ (phase = "WATCHING" /\ QuietWatch) ~> (phase = "LOADED" \/ ~QuietWatch)

C21_Witness ==
    /\ phase = "LOADED"
    /\ QuietWatch
    /\ PollingStrategy
    /\ READY_AFTER_N_STEADY_STATE_INTERVALS >= 2
    /\ EXIT_REGARDLESS_AFTER_MAX_INTERVALS = READY_AFTER_N_STEADY_STATE_INTERVALS + 1
    /\ intervalCount = EXIT_REGARDLESS_AFTER_MAX_INTERVALS

\* a step in which the pending setTimeout runs the load check of the watch
LoadCheckRuns ==
    /\ phase = "WATCHING"
    /\ intervalCount' # intervalCount \/ phase' = "LOADED"

\* while WATCHING the instance has one interval timer, the stored handle, and
\* one pending setTimeout
OneTimerEach ==
    phase = "WATCHING" =>
        /\ intervalTimers = {[id |-> domMutationOrNodeCountIntervalCheck,
                              handler |-> strategy]}
        /\ pendingTimeouts = 1

\* C22: while WATCHING the instance has a single interval timer and a single
\* pending load check, and the change observer runs exactly once between two
\* consecutive load checks.
C22_OneTickPerCheck ==
    /\ []OneTimerEach
    /\ [][LoadCheckRuns => ticksSinceCheck = 1]_vars

\* a step in which the setInterval observer of the mutation strategy runs
MutationTickRuns ==
    /\ strategy = "domMutationsCount"
    /\ ticksSinceCheck' = ticksSinceCheck + 1

\* C23: under the mutation-based strategy no counted change is lost between
\* two observer ticks: only an observer tick lowers the change accumulator, a
\* tick that finds it above 0 reports a change and resets the steady
\* counter to 0, and the accumulator is 0 right after every observer tick.
C23_NoChangeLost ==
    [][ /\ MutationTickRuns =>
              /\ mutationsCount' = 0
              /\ mutationsCount > 0 => (steadyStateIntervals' = 0 /\ quietTicks' = 0)
              /\ mutationsCount = 0 =>
                     steadyStateIntervals' = steadyStateIntervals + 1
        /\ (strategy = "domMutationsCount" /\ ~MutationTickRuns) =>
              mutationsCount' >= mutationsCount ]_vars

C23_Witness ==
    /\ strategy = "domMutationsCount"
    /\ phase = "WATCHING"
    /\ ticksSinceCheck >= 1
    /\ changedTicks = -1 /\ quietTicks = 0
    /\ steadyStateIntervals = 0 /\ mutationsCount = 0
    /\ lastKnownNodeCountForMutationEvent = nodeCount

\* a step in which a notification batch is delivered to the observer callback
NotificationDelivered == recordsPending /\ ~recordsPending'

\* the watch runs under the mutation strategy and the element count has not
\* changed since it started (the page has only updated attributes or texts)
NoRecountSinceStart ==
    /\ strategy = "domMutationsCount"
    /\ phase = "WATCHING"
    /\ liveUpdates # "off"

\* C24: every notification batch records the current element count and adds
\* exactly 1 to the change accumulator if and only if that count differs from
\* the count at the previous notification; notifications on a DOM whose
\* element count has not changed since watch start, the first one included,
\* leave the accumulator unchanged.
C24_CountsOnlyCountChanges ==
    /\ [][NotificationDelivered =>
            /\ lastKnownNodeCountForMutationEvent' = nodeCount
            /\ lastKnownNodeCountForMutationEvent # 0 =>
                   mutationsCount' = mutationsCount +
                       (IF lastKnownNodeCountForMutationEvent # nodeCount
                        THEN 1 ELSE 0)]_vars
    /\ [](NoRecountSinceStart => mutationsCount = 0)

\* a step in which the setInterval observer of the polling strategy runs
PollingTickRuns ==
    /\ strategy = "nodeCountChange"
    /\ ticksSinceCheck' = ticksSinceCheck + 1

\* C25: under the polling-based strategy the baseline is the element count
\* computed at the latest tick (no other step moves it), and a tick reports a
\* change, resetting the steady counter, if and only if the element count it
\* computes differs from that baseline; otherwise it increments the counter.
C25_PollingDelta ==
    [][ /\ PollingTickRuns =>
              /\ lastKnownNodeCountForNodeCountCheck' = nodeCount
              /\ (quietTicks' = 0) <=> (lastKnownNodeCountForNodeCountCheck # nodeCount)
              /\ lastKnownNodeCountForNodeCountCheck # nodeCount =>
                     steadyStateIntervals' = 0
              /\ lastKnownNodeCountForNodeCountCheck = nodeCount =>
                     steadyStateIntervals' = steadyStateIntervals + 1
        /\ (strategy = "nodeCountChange" /\ ~PollingTickRuns) =>
              UNCHANGED lastKnownNodeCountForNodeCountCheck ]_vars

C25_Witness ==
    /\ strategy = "nodeCountChange"
    /\ phase = "WATCHING"
    /\ ticksSinceCheck >= 1
    /\ changedTicks = -1 /\ quietTicks = 0
    /\ steadyStateIntervals = 0
    /\ lastKnownNodeCountForNodeCountCheck = nodeCount
    /\ intervalCount >= 2

\* C26: the strategy is selected once, at setup: the interval runs the
\* mutation handler if and only if the MutationObserver is subscribed and the
\* polling handler otherwise, only the selected handler ever runs for the
\* instance, and a failed observer setup never makes callWhenReadyToGo fail.
C26_StrategySelectedOnce ==
    /\ [](/\ \A t \in intervalTimers : t.handler = strategy
          /\ strategy = "domMutationsCount" =>
                 (observing /\ lastKnownNodeCountForNodeCountCheck = 0)
          /\ strategy = "nodeCountChange" =>
                 /\ ~observing /\ ~recordsPending
                 /\ mutationsCount = 0
                 /\ lastKnownNodeCountForMutationEvent = 0
          /\ \A i \in 1..Len(callLog) : callLog[i].result # "setup")
    /\ [][strategy # "none" => strategy' = strategy]_vars

C26_Witness ==
    /\ strategy = "nodeCountChange"
    /\ ~observing
    /\ phase = "LOADED"
    /\ Len(callLog) = 2
    /\ callLog[1].result = "returned"
    /\ lastKnownNodeCountForNodeCountCheck = nodeCount
    /\ steadyStateIntervals >= 2

\* C27: when setInterval throws in _setupLoadChecker or the first setTimeout
\* throws in _executeCallbackAfterPageIsLoaded, the call fails with an error,
\* the mutation subscription and the interval timer are released before the
\* error reaches the caller, and the callback is never invoked.
C27_SetupFailureReleases ==
    phase = "SETUP_ERROR" =>
        /\ callLog[1].result = "setup"
        /\ intervalTimers = {} /\ pendingTimeouts = 0
        /\ ~observing /\ ~recordsPending
        /\ TotalCallbackCalls = 0

\* the first call failed in the validation or in the setup
FailedToStart == phase \in {"CONFIG_ERROR", "SETUP_ERROR"}

\* C28: the used flag is set by the first call, before validation and setup,
\* and never cleared; an instance whose first call failed with the
\* configuration or a setup error stays consumed: every later call reports
\* the reuse error and no watch is ever started on it.
C28_UsedIsMonotonic ==
    /\ [](Len(callLog) >= 1 => usedInstance)
    /\ [](Len(callLog) = 2 => callLog[2].result = "reuse")
    /\ [](FailedToStart =>
             (intervalTimers = {} /\ pendingTimeouts = 0 /\ TotalCallbackCalls = 0))
    /\ [][ /\ usedInstance => usedInstance'
           /\ FailedToStart => phase' = phase ]_vars

C28_Witness ==
    /\ phase = "SETUP_ERROR"
    /\ usedInstance
    /\ Len(callLog) = 2
    /\ callLog[1].result = "setup"
    /\ callLog[2].result = "reuse"
    /\ strategy = "nodeCountChange"

\* C29: once the watch is LOADED or TIMED_OUT it stays so, and no later step
\* (DOM edit, notification, timer, rejected call) modifies
\* _steadyStateIntervals or _intervalCount.
C29_CountersFrozen ==
    [][Ended => /\ phase' = phase
                /\ steadyStateIntervals' = steadyStateIntervals
                /\ intervalCount' = intervalCount]_vars

C29_Witness ==
    /\ phase = "TIMED_OUT"
    /\ recordsPending
    /\ mutationsCount >= 1
    /\ steadyStateIntervals >= 1
    /\ Len(callLog) = 2

\* the element nodes reached from the counted list through element nodes only
RECURSIVE ThroughElements(_, _)
ThroughElements(t, i) ==
    \/ i = 0
    \/ /\ t.nodeType[i] = ELEMENT_NODE
       /\ ThroughElements(t, t.parent[i])

ReachableElements(t) == {i \in TreeNodes : ThroughElements(t, i)}

\* C30: _countElements is read-only and idempotent: a call changes neither
\* the tree nor a field of the instance, two calls on the unchanged tree
\* return the same number, and that number is the number of element nodes
\* reached from the given child list through element nodes only.
C30_CountElements ==
    /\ [](\A k \in 1..Len(counted) :
             counted[k] = Cardinality(ReachableElements(tree)))
    /\ [](Len(counted) = 2 => counted[1] = counted[2])
    /\ [][Len(counted') > Len(counted) => UNCHANGED <<tree, stateVars, nodeCount>>]_vars

C30_Witness ==
    /\ Len(counted) = 2
    /\ counted[2] = 1
    /\ \E i, j \in TreeNodes :
          /\ tree.nodeType[i] # ELEMENT_NODE
          /\ tree.parent[j] = i
          /\ tree.nodeType[j] = ELEMENT_NODE

====
